---- MODULE Spec2Model ----
(***************************************************************************)
(* The pagination pumps of crates/rev/src/git_pull_requests.rs:            *)
(*   GitPullRequests::run_inner  (kind = "prs", review summaries)          *)
(*   GitPullRequest::run_inner   (kind = "pr",  enriched review details)   *)
(* together with the bounded tokio mpsc channel that run() creates, the    *)
(* review source behind GitProvider and the task that owns the receiver.   *)
(*                                                                         *)
(* A producer step runs from one await point of run_inner to the next; the *)
(* source answers an outstanding call in a step of its own, and so does    *)
(* the consumer.  Items are numbered in the order the source returns them. *)
(*                                                                         *)
(* The thresholds, caps and channel capacities are those of the code.  The *)
(* source is one of two classes, chosen in Init.  A "bulk" source answers  *)
(* a list call with a full page of BulkPage items or with an empty page,   *)
(* and resolves get_review in request order to Some or Err: it has enough  *)
(* items to fill the channel and to cross the hard cap.  A "small" source  *)
(* holds at most MaxItems items, answers with pages of 0..SmallPage items  *)
(* and resolves get_review in any order to Some, None or Err.  Both may    *)
(* fail a list call and may report has_more either way on every page.      *)
(* The pump stores the last_cursor of a response as it comes: a "small"    *)
(* source returns None or any of its cursors on any page, a "bulk" source  *)
(* the position it has reached.                                            *)
(*                                                                         *)
(* The selectable widget list of crates/rev-widget-list/src/lib.rs is      *)
(* modelled beside the pumps: SelectableWidgetList::next, previous,        *)
(* WidgetListState::select and update_view_port as called by render.  A    *)
(* widget is its height.  ViewSpec renders a list in any state the public  *)
(* fields allow (the list can have changed since offset and selected were  *)
(* set); NavSpec navigates it.  The pumps stand still in both.  Heights    *)
(* are u16: a sum of heights past u16::MAX panics or wraps, as the build   *)
(* has it, and both outcomes are in the model.                             *)
(***************************************************************************)
EXTENDS Integers, Sequences, FiniteSets, TLC

(* ------------------------------ bounds -------------------------------- *)

\* Page size of a source that serves full pages ("bulk").
BulkPage == 10
\* Largest page of a source that serves short pages ("small").
SmallPage == 3
\* Number of reviews a "small" source holds in total.
MaxItems == 4
\* The count of list calls issued after the receiver was dropped saturates here.
MaxLateCalls == 2
\* The count of sends that returned Err saturates here.
MaxSendErrs == 3
\* The count of list calls in flight saturates here.
MaxOutstanding == 2

\* The source's cursors other than None are 1..MaxCursor.
MaxCursor == 2
\* Longest list of widgets.
MaxLen == 5
\* Tallest widget of ordinary size; the widget heights are 1, 2, MaxItemHeight
\* and u16::MAX.
MaxItemHeight == 3
\* Longest list that holds a widget of height u16::MAX.
MaxTallLen == 3
\* Tallest viewport (area.height).
MaxViewHeight == 7

(* ------------------- constants of git_pull_requests.rs ---------------- *)

LowWaterPrs == 15
LowWaterPr == 10
HardCapPrs == 100
HardCapPr == 100
ChanCapPrs == 20
ChanCapPr == 15
\* `let mut cursor = None`
NoCursor == -1


(* ----------------- constants of components/github_prs ----------------- *)

\* `if prs_res.len() > 3 { break; }`
BatchLimit == 3

\* `if prs.len() < 30 { self.schedule_fetch(); }`
DisplayTarget == 30

\* The GotoPage("github_review_list") actions a run of the application sends.
MaxGotos == 2

(* ------------------ bounds of components/github_pr ------------------- *)

\* The GotoPage("github_review") and SkipReview actions a run of the
\* application sends.
MaxReviewInputs == 3

\* The reviews one run of the enrichment pipeline delivers at most.
MaxReviews == 2

(* --------------------- constants of rev-widget-list ------------------- *)

\* `selected: Option<usize>` is None.
Unselected == -1

\* `heights: &[u16]`, `max_height: u16`: a height, and the `y` a scan adds the
\* heights up in, is one of 0..65535.
U16Modulus == 65536

LowWater(k) == IF k = "prs" THEN LowWaterPrs ELSE LowWaterPr
HardCap(k) == IF k = "prs" THEN HardCapPrs ELSE HardCapPr
ChanCap(k) == IF k = "prs" THEN ChanCapPrs ELSE ChanCapPr

VARIABLES
  kind,       \* which run_inner this run executes: "prs" or "pr"
  src,        \* the class of source behind the provider: "bulk" or "small"
  pc,         \* the producer's position: "loop", "list", "fanout", "send", "dsend", "done"
  buffer,     \* run_inner: buffer (VecDeque)
  cursor,     \* run_inner: cursor
  has_more,   \* run_inner: has_more
  seen,       \* run_inner: seen
  held,       \* the item of the send that is awaiting, <<>> when there is none
  tasks,      \* the get_review futures of the page still pending in FuturesUnordered
  chan,       \* the items buffered in the mpsc channel
  rx,         \* the receiving half: "open" or "dropped"
  received,   \* what the consumer got from recv(), in order
  eos,        \* the consumer's recv() has returned None
  fetched,    \* history: the concatenation of the pages returned by the source
  absent,     \* history: the summaries whose get_review resolved to None
  failed,     \* history: "" or the call that returned Err: "list", "detail"
  passed,     \* history: the cursor passed to the latest list call
  lateCalls,  \* history: list calls issued since the receiver was dropped
  everEmpty,  \* history: the source has returned a page without items
  lastPage,   \* history: the items of the latest page returned
  resolved,   \* history: the summaries whose get_review resolved to Some
  sendErrs,   \* history: the sends of this run that returned Err
  suspended,  \* history: a send was pending on a full channel when the receiver was dropped
  outstanding, \* history: the list calls issued and not yet answered
  completions, \* history: the summaries whose get_review resolved to Some, in the order they did
  answered,   \* history: the last_cursor of the latest response, NoCursor before the first
  items,      \* SelectableWidgetList: items, as the sequence of their heights
  circular,   \* SelectableWidgetList: circular
  truncate,   \* SelectableWidgetList: truncate
  max_height, \* the height of the area the list is rendered into
  offset,     \* WidgetListState: offset
  selected,   \* WidgetListState: selected, Unselected for None
  view,       \* the heights update_view_port returned to the latest render
  op,         \* the latest call on the list: "idle", "next", "previous", "select", "render", "panic"
  entry,      \* history: offset and selected when the latest call began, and its argument
  trace,      \* history: the scan that produced view and the items the scans broke at
  fetchers,   \* GithubPrs: the tasks schedule_fetch has spawned, each with its position and prs_res
  lock,       \* GithubPrs: the task holding the guard of prs_stream, 0 when it is free
  stream,     \* GithubPrs: prs_stream, "none" or "some"
  started,    \* history: the calls of GitPullRequests::run
  actions,    \* the actions sent on action_tx and not yet dispatched, in order
  state,      \* GithubPrs: state
  prs,        \* GithubPrs: prs, <<>> for None
  gotos,      \* history: the GotoPage("github_review_list") actions sent
  rvTasks,    \* GithubPr: the tasks schedule_fetch has spawned: position and the Arc captured
  rvArc,      \* GithubPr: prs_stream, as the index in rvStreams of the Arc it points to
  rvStreams,  \* the Arc<Mutex<Option<Receiver>>> created so far: stream, lock owner, items delivered
  rvActions,  \* the actions sent on action_tx and not yet dispatched to GithubPr, in order
  rvState,    \* GithubPr: state
  rvPr,       \* GithubPr: pr, <<>> for None
  rvInputs    \* history: the GotoPage("github_review") and SkipReview actions sent

pump == <<kind, src, pc, buffer, cursor, has_more, seen, held, tasks>>
pipe == <<chan, rx, received, eos>>
hist == <<fetched, absent, failed, passed, lateCalls, everEmpty, lastPage, resolved, sendErrs,
         suspended, outstanding, completions, answered>>
list == <<items, circular, truncate, max_height, offset, selected, view, op, entry, trace>>
ui == <<fetchers, lock, stream, started, actions, state, prs, gotos>>
rv == <<rvTasks, rvArc, rvStreams, rvActions, rvState, rvPr, rvInputs>>
vars == <<pump, pipe, hist, list, ui, rv>>

(* ------------------------------ helpers ------------------------------- *)

Min(a, b) == IF a < b THEN a ELSE b

SetMin(S) == CHOOSE x \in S : \A y \in S : x <= y

\* The items of a page of n items returned after `from` items.
Page(from, n) == [i \in 1..n |-> from + i]

Range(s) == {s[i] : i \in 1..Len(s)}

IsPrefix(s, t) == Len(s) <= Len(t) /\ \A i \in 1..Len(s) : s[i] = t[i]

\* A refill that puts the new page in front of the backlog.
ExtendFront(buf, page) == page \o buf

\* A pop_front that leaves the item in the backlog.
PopFrontKept(buf) == buf

\* VecDeque::extend / push_back and pop_front.
Extend(buf, page) == buf \o page
PopFront(buf) == Tail(buf)
Front(buf) == Head(buf)

(* ------------------------------ source -------------------------------- *)

\* The page sizes the source may answer with once it has returned `sn` items.
PageSizes(s, sn) ==
  IF s = "bulk" THEN {0, BulkPage}
  ELSE 0..Min(SmallPage, MaxItems - sn)

\* Whether the source may resolve get_review of pending task t now: a "small"
\* source completes the futures in any order, a "bulk" one in request order.
MayComplete(s, ts, t) == s = "small" \/ t = SetMin(ts)

\* The last_cursor a response may carry once the source has returned sn items
\* (`last_cursor: prs.page_info.end_cursor`, an Option<String> the pump stores
\* as it is). A "small" source answers with None or any of its cursors,
\* whether or not it was returned or passed before; a "bulk" source names its
\* cursors by position, the number of items returned so far.
LastCursors(s, sn) ==
  IF s = "bulk" THEN {sn}
  ELSE {NoCursor} \cup 1..MaxCursor

\* The results get_review may resolve to.
DetailResults(s) == IF s = "small" THEN {"some", "none", "err"} ELSE {"some", "err"}

(* ----------------------------- run_inner ------------------------------ *)

\* A run that drops tx at the end of the loop without the drain loop.
DrainSkipped(buf) == [pc |-> "done", buffer |-> <<>>, held |-> <<>>]

\* `for item in buffer { if tx.send(item).await.is_err() { break; } }` up to
\* its next await, then `drop(tx)`.
Drain(buf) ==
  IF buf = <<>>
  THEN [pc |-> "done", buffer |-> <<>>, held |-> <<>>]
  ELSE [pc |-> "dsend", buffer |-> PopFront(buf), held |-> <<Front(buf)>>]

\* A cap check against twice the cap.
CapDoubled(k, sn) == sn > 2 * HardCap(k)

\* A cap that is reached at 100 rather than exceeded above it.
CapReached(k, sn) == sn >= HardCap(k)

\* `if seen > 100 { break; }`
CapExceeded(k, sn) == sn > HardCap(k)

\* The rest of a loop iteration after the refill branch: the cap check, then
\* pop_front and the send.
AfterRefill(k, buf, sn) ==
  IF CapExceeded(k, sn) THEN Drain(buf)
  ELSE IF buf # <<>>
       THEN [pc |-> "send", buffer |-> PopFront(buf), held |-> <<Front(buf)>>]
       ELSE [pc |-> "loop", buffer |-> buf, held |-> <<>>]

\* A refill that looks at has_more alone.
NeedsRefillAlways(k, buf, hm) == hm

\* `if buffer.len() <= 15 && has_more`
NeedsRefill(k, buf, hm) == Len(buf) <= LowWater(k) /\ hm

\* A refill branch without `if !has_more { break; }`.
AfterPageNoBreak(k, buf, sn, hm) == AfterRefill(k, buf, sn)

\* A refill branch whose test of has_more is inverted: `if has_more { break; }`.
AfterPageBreaksWhenMore(k, buf, sn, hm) == IF hm THEN Drain(buf) ELSE AfterRefill(k, buf, sn)

\* After the refill branch has run with the page folded into buf.
AfterPage(k, buf, sn, hm) == IF ~hm THEN Drain(buf) ELSE AfterRefill(k, buf, sn)

\* A drain loop that goes on to its next item after a failed send.
OnSendErrDrainGoesOn(p, buf) == Drain(buf)

\* A send whose error is ignored in the loop.
OnSendErrIgnored(p, buf) ==
  IF p = "send" THEN [pc |-> "loop", buffer |-> buf, held |-> <<>>]
  ELSE Drain(buf)

\* `if tx.send(item).await.is_err() { break; }`: in the loop the break leads to
\* the drain loop, in the drain loop to `drop(tx)`.
OnSendErr(p, buf) ==
  IF p = "send" THEN Drain(buf)
  ELSE [pc |-> "done", buffer |-> <<>>, held |-> <<>>]

\* A failed get_review that is skipped: the siblings gathered so far are sent.
OnDetailErrSkipped(buf) == Drain(buf)

\* `let review = review?;` on Err: run_inner returns, its locals and the
\* futures still pending are dropped.
OnDetailErr(buf) == [pc |-> "done", buffer |-> <<>>, held |-> <<>>]

\* A detail that is put at the head of the backlog.
PushDetailFront(buf, t, res) == IF res = "some" THEN <<t>> \o buf ELSE buf

\* `if let Some(review) = review { buffer.push_back(review) }`
PushDetail(buf, t, res) == IF res = "some" THEN Append(buf, t) ELSE buf

\* A fan-out that leaves out the first summary of the page.
DetailTasksButFirst(page) == Range(page) \ {page[i] : i \in {1} \cap DOMAIN page}

\* A fan-out that leaves out the last summary of the page.
DetailTasksButLast(page) == Range(page) \ {page[i] : i \in {Len(page)} \cap DOMAIN page}

\* `for review_id in review_list.items { tasks.push(async move { get_review }) }`
DetailTasks(page) == Range(page)

\* A channel that takes one item more than its capacity.
HasRoomForOneMore(k, ch) == Len(ch) <= ChanCap(k)

\* mpsc::channel(20), mpsc::channel(15): a send completes with Ok only while
\* fewer items than the capacity are buffered.
HasRoom(k, ch) == Len(ch) < ChanCap(k)

\* A list call that is started and not awaited: the iteration goes on.
ListNotAwaited(k, buf, sn) == AfterRefill(k, buf, sn)

\* `get_user_reviews_cursor(..).await?`: run_inner is suspended until the call
\* returns.
AwaitList(k, buf, sn) == [pc |-> "list", buffer |-> buf, held |-> <<>>]

\* A cursor that is not advanced.
NextCursorKept(cur, last_cursor) == cur

\* `cursor = review_list.last_cursor;`
NextCursor(cur, last_cursor) == last_cursor

\* A fan-out that goes on as soon as one get_review has returned.
JoinedAny(ts) == TRUE

\* `while let Some(review) = tasks.next().await`: the loop ends when
\* FuturesUnordered has no future left.
Joined(ts) == ts = {}

Goto(r) ==
  /\ pc' = r.pc
  /\ buffer' = r.buffer
  /\ held' = r.held

\* Top of the loop: either issue get_user_reviews_cursor or go on to the send.
LoopTop ==
  /\ pc = "loop"
  /\ IF NeedsRefill(kind, buffer, has_more)
     THEN /\ Goto(AwaitList(kind, buffer, seen))
          /\ passed' = cursor
          /\ outstanding' = Min(outstanding + 1, MaxOutstanding)
          /\ lateCalls' = IF rx = "dropped" THEN Min(lateCalls + 1, MaxLateCalls) ELSE lateCalls
     ELSE /\ Goto(AfterRefill(kind, buffer, seen))
          /\ UNCHANGED <<passed, lateCalls, outstanding>>
  /\ UNCHANGED <<kind, src, cursor, has_more, seen, tasks, pipe,
                 fetched, absent, failed, everEmpty, lastPage, resolved, sendErrs,
                 suspended, completions, answered>>

\* get_user_reviews_cursor returns Ok(ReviewList) with n items.
ListPageOk ==
  /\ pc = "list"
  /\ \E n \in PageSizes(src, seen), hm \in BOOLEAN :
     \E last_cursor \in LastCursors(src, seen + n) :
       LET page == Page(seen, n) IN
       /\ has_more' = hm
       /\ cursor' = NextCursor(cursor, last_cursor)
       /\ answered' = last_cursor
       /\ outstanding' = outstanding - 1
       /\ seen' = seen + n
       /\ fetched' = fetched \o page
       /\ everEmpty' = (everEmpty \/ n = 0)
       /\ lastPage' = Range(page)
       /\ IF kind = "prs"
          THEN /\ Goto(AfterPage(kind, Extend(buffer, page), seen + n, hm))
               /\ tasks' = tasks
          ELSE /\ pc' = "fanout"
               /\ tasks' = DetailTasks(page)
               /\ UNCHANGED <<buffer, held>>
  /\ UNCHANGED <<kind, src, pipe, absent, failed, passed, lateCalls, resolved, sendErrs,
                 suspended, completions>>

\* A failed list call after which the backlog is still sent.
ListPageErrFlushed ==
  /\ pc = "list"
  /\ Goto(Drain(buffer))
  /\ failed' = "list"
  /\ outstanding' = outstanding - 1
  /\ UNCHANGED <<kind, src, cursor, has_more, seen, tasks, pipe,
                 fetched, absent, passed, lateCalls, everEmpty, lastPage, resolved,
                 sendErrs, suspended, completions, answered>>

\* A failed list call that is logged and tried again.
ListPageErrRetried ==
  /\ pc = "list"
  /\ pc' = "loop"
  /\ failed' = "list"
  /\ outstanding' = outstanding - 1
  /\ UNCHANGED <<kind, src, buffer, cursor, has_more, seen, held, tasks, pipe,
                 fetched, absent, passed, lateCalls, everEmpty, lastPage, resolved,
                 sendErrs, suspended, completions, answered>>

\* get_user_reviews_cursor returns Err: `.await?` leaves run_inner, tx is dropped.
ListPageErr ==
  /\ pc = "list"
  /\ pc' = "done"
  /\ failed' = "list"
  /\ buffer' = <<>>
  /\ outstanding' = outstanding - 1
  /\ UNCHANGED <<kind, src, cursor, has_more, seen, held, tasks, pipe,
                 fetched, absent, passed, lateCalls, everEmpty, lastPage, resolved,
                 sendErrs, suspended, completions, answered>>

\* `tasks.next().await` yields the result of one get_review.
GetReview ==
  /\ pc = "fanout"
  /\ \E t \in tasks, res \in DetailResults(src) :
       /\ MayComplete(src, tasks, t)
       /\ IF res = "err"
          THEN /\ Goto(OnDetailErr(buffer))
               /\ failed' = "detail"
               /\ tasks' = {}
               /\ UNCHANGED <<absent, resolved, completions>>
          ELSE /\ pc' = pc
               /\ held' = held
               /\ failed' = failed
               /\ tasks' = tasks \ {t}
               /\ buffer' = PushDetail(buffer, t, res)
               /\ absent' = IF res = "none" THEN absent \cup {t} ELSE absent
               /\ resolved' = IF res = "some" THEN resolved \cup {t} ELSE resolved
               /\ completions' = IF res = "some" THEN Append(completions, t) ELSE completions
  /\ UNCHANGED <<kind, src, cursor, has_more, seen, pipe,
                 fetched, passed, lateCalls, everEmpty, lastPage, sendErrs,
                 suspended, outstanding, answered>>

\* `tasks.next().await` yields None: the page is folded, the iteration goes on.
FanoutDone ==
  /\ pc = "fanout"
  /\ Joined(tasks)
  /\ Goto(AfterPage(kind, buffer, seen, has_more))
  /\ UNCHANGED <<kind, src, cursor, has_more, seen, tasks, pipe, hist>>

\* tx.send(item) completes: Ok when the channel has room, Err when the
\* receiver is gone; it stays pending while the channel is full.
Send ==
  /\ pc \in {"send", "dsend"}
  /\ IF rx = "dropped"
     THEN /\ Goto(OnSendErr(pc, buffer))
          /\ chan' = chan
          /\ sendErrs' = Min(sendErrs + 1, MaxSendErrs)
     ELSE /\ HasRoom(kind, chan)
          /\ chan' = Append(chan, held[1])
          /\ sendErrs' = sendErrs
          /\ IF pc = "send"
             THEN Goto([pc |-> "loop", buffer |-> buffer, held |-> <<>>])
             ELSE Goto(Drain(buffer))
  /\ UNCHANGED <<kind, src, cursor, has_more, seen, tasks, rx, received, eos,
                 fetched, absent, failed, passed, lateCalls, everEmpty, lastPage, resolved,
                 suspended, outstanding, completions, answered>>

(* ------------------------------ consumer ------------------------------ *)

\* recv() returns Some(item).
Recv ==
  /\ rx = "open"
  /\ chan # <<>>
  /\ received' = Append(received, Head(chan))
  /\ chan' = Tail(chan)
  /\ UNCHANGED <<pump, rx, eos, hist>>

\* recv() returns None: the channel is empty and the sender is dropped.
RecvNone ==
  /\ rx = "open"
  /\ chan = <<>>
  /\ pc = "done"
  /\ ~eos
  /\ eos' = TRUE
  /\ UNCHANGED <<pump, chan, rx, received, hist>>

\* The receiver is dropped, before or after recv() has returned None; what
\* the channel still buffers is dropped with it.
DropRx ==
  /\ rx = "open"
  /\ rx' = "dropped"
  /\ chan' = <<>>
  /\ suspended' = (pc \in {"send", "dsend"} /\ Len(chan) >= ChanCap(kind))
  /\ UNCHANGED <<pump, received, eos, fetched, absent, failed, passed, lateCalls,
                 everEmpty, lastPage, resolved, sendErrs, outstanding, completions, answered>>

(* --------------------------- rev-widget-list -------------------------- *)

\* The sum of a sequence of heights, in the integers.
RECURSIVE Sum(_)
Sum(s) == IF s = <<>> THEN 0 ELSE Head(s) + Sum(Tail(s))

Last(s) == s[Len(s)]

\* u16::MAX
U16Max == U16Modulus - 1

OrdinaryHeights == {1, 2, MaxItemHeight}

ItemHeights == OrdinaryHeights \cup {U16Max}

\* The lists rendered: widgets of ordinary height up to MaxLen of them, and
\* widgets of any height up to MaxTallLen of them.
HeightSeqs ==
  UNION ({[1..n -> OrdinaryHeights] : n \in 0..MaxLen}
           \cup {[1..n -> ItemHeights] : n \in 0..MaxTallLen})

Selections == {Unselected} \cup (0..(MaxLen - 1))

\* A select that keeps offset when the selection is cleared.
SelectKeepsOffset(off, index) == [selected |-> index, offset |-> off]

\* WidgetListState::select
select(off, index) ==
  [selected |-> index, offset |-> IF index = Unselected THEN 0 ELSE off]

\* A next() that wraps from the last item to the second.
NextIndexWrapsToSecond(n, circ, sel) ==
  IF sel = Unselected THEN 0
  ELSE IF sel >= n - 1 THEN (IF circ THEN Min(1, n - 1) ELSE sel)
  ELSE sel + 1

\* A next() that stays on the last item whatever `circular` says.
NextIndexClamped(n, circ, sel) ==
  IF sel = Unselected THEN 0 ELSE IF sel >= n - 1 THEN sel ELSE sel + 1

\* The `match self.state.selected()` of next().
NextIndex(n, circ, sel) ==
  IF sel = Unselected THEN 0
  ELSE IF sel >= n - 1 THEN (IF circ THEN 0 ELSE sel)
  ELSE sel + 1

\* A previous() that wraps from the first item to the index one past the last.
PreviousIndexToLen(n, circ, sel) ==
  IF sel = Unselected THEN 0
  ELSE IF sel = 0 THEN (IF circ THEN n ELSE sel)
  ELSE sel - 1

\* The `match self.state.selected()` of previous().
PreviousIndex(n, circ, sel) ==
  IF sel = Unselected THEN 0
  ELSE IF sel = 0 THEN (IF circ THEN n - 1 ELSE sel)
  ELSE sel - 1

\* SelectableWidgetList::next
next(n, circ, off, sel) ==
  IF n = 0 THEN [selected |-> sel, offset |-> off]
  ELSE select(off, NextIndex(n, circ, sel))

\* A previous() without the check for an empty list.
PreviousUnguarded(n, circ, off, sel) == select(off, PreviousIndex(n, circ, sel))

\* SelectableWidgetList::previous
previous(n, circ, off, sel) ==
  IF n = 0 THEN [selected |-> sel, offset |-> off]
  ELSE select(off, PreviousIndex(n, circ, sel))

\* SelectableWidgetList::get_selected: `selected().and_then(|index|
\* items.get(index))`, the index of the item returned or Unselected for None.
get_selected(n, sel) == IF sel # Unselected /\ sel < n THEN sel ELSE Unselected

\* `self.selected.unwrap_or(0)`
SelectedOrFirst(sel) == IF sel = Unselected THEN 0 ELSE sel

\* `if selected < self.offset { self.offset = selected; }`
ClampToSelected(off, s) == IF s < off THEN s ELSE off

\* `y + height` and `y += height` where overflow checks are not compiled in:
\* the sum wraps around at 2^16.
Add16(y, height) == (y + height) % U16Modulus

\* `y + height` exceeds u16::MAX: the addition panics where overflow checks
\* are compiled in and wraps where they are not.
Carries(y, height) == y + height >= U16Modulus

\* Forward scan: `if y + height > max_height`
Overflows(y, height, mh) == Add16(y, height) > mh

\* Backward scan: `if y + height >= max_height`
FillsOrOverflows(y, height, mh) == Add16(y, height) >= mh

\* `max_height - y`: the rows left for the item a scan breaks at.
Partial(height, mh, y) == mh - y

\* The forward scan of update_view_port from item i on with y rows used:
\* the heights pushed, whether the selected item was passed, the full
\* height of the item the scan broke at (0 when it ran to the end), and
\* whether a `y + height` exceeded u16::MAX on the way.
RECURSIVE ForwardScan(_, _, _, _, _, _, _, _, _)
ForwardScan(heights, mh, trunc, s, i, y, acc, found, carried) ==
  IF i >= Len(heights)
  THEN [view |-> acc, found |-> found, broke |-> 0, carried |-> carried]
  ELSE LET height == heights[i + 1]
           c == carried \/ Carries(y, height)
       IN IF Overflows(y, height, mh)
          THEN [view |-> IF trunc THEN Append(acc, Partial(height, mh, y)) ELSE acc,
                found |-> found, broke |-> height, carried |-> c]
          ELSE ForwardScan(heights, mh, trunc, s, i + 1, Add16(y, height),
                           Append(acc, height), found \/ s = i, c)

\* The backward scan of update_view_port at item i with y rows used: the
\* heights inserted, the offset assigned, the full height of the item the scan
\* broke at, whether `i -= 1` was run at i = 0 (then offset keeps `off`), and
\* whether a `y + height` exceeded u16::MAX on the way.
RECURSIVE BackwardScan(_, _, _, _, _, _, _, _)
BackwardScan(heights, mh, trunc, off, i, y, acc, carried) ==
  LET height == heights[i + 1]
      c == carried \/ Carries(y, height)
  IN IF FillsOrOverflows(y, height, mh)
     THEN IF trunc
          THEN [view |-> <<Partial(height, mh, y)>> \o acc, offset |-> i, broke |-> height,
                underflow |-> FALSE, carried |-> c]
          ELSE [view |-> acc, offset |-> i + 1, broke |-> height,
                underflow |-> FALSE, carried |-> c]
     ELSE IF i = 0
          THEN [view |-> <<height>> \o acc, offset |-> off, broke |-> 0,
                underflow |-> TRUE, carried |-> c]
          ELSE BackwardScan(heights, mh, trunc, off, i - 1, Add16(y, height),
                            <<height>> \o acc, c)

\* WidgetListState::update_view_port on a state (off, sel): the outcomes the
\* build can produce.  A u16 addition that exceeds u16::MAX (`y + height`) and
\* a usize subtraction that underflows (`last_elem - selected`, `i -= 1`)
\* panic where overflow checks are compiled in and wrap where they are not:
\* the outcomes are the panic and what the wrapping build returns.  After a
\* usize wrap `skip` exhausts the iterator and the loop ends.
update_view_port(heights, mh, trunc, off, sel) ==
  LET s == SelectedOrFirst(sel)
      o == ClampToSelected(off, s)
      f == ForwardScan(heights, mh, trunc, s, o, 0, <<>>, FALSE, FALSE)
      last_elem == IF Len(heights) = 0 THEN 0 ELSE Len(heights) - 1
      b == BackwardScan(heights, mh, trunc, o, s, 0, <<>>, FALSE)
      wrapping ==
        IF f.found
        THEN [offset |-> o, view |-> f.view, panic |-> FALSE,
              trace |-> [scan |-> "forward", forward |-> f.broke, backward |-> 0,
                         carried |-> f.carried]]
        ELSE IF s > last_elem
        THEN [offset |-> o, view |-> <<>>, panic |-> FALSE,
              trace |-> [scan |-> "wrapped", forward |-> f.broke, backward |-> 0,
                         carried |-> f.carried]]
        ELSE [offset |-> b.offset, view |-> b.view, panic |-> FALSE,
              trace |-> [scan |-> IF b.underflow THEN "wrapped" ELSE "backward",
                         forward |-> f.broke,
                         backward |-> IF b.underflow THEN 0 ELSE b.broke,
                         carried |-> f.carried \/ b.carried]]
      panic == [offset |-> o, view |-> <<>>, panic |-> TRUE,
                trace |-> [scan |-> "panic", forward |-> f.broke, backward |-> 0,
                           carried |-> wrapping.trace.carried]]
      checked ==
        \/ f.carried
        \/ ~f.found /\ s > last_elem
        \/ ~f.found /\ s <= last_elem /\ (b.underflow \/ b.carried)
  IN IF checked THEN {panic, wrapping} ELSE {wrapping}

NoTrace == [scan |-> "none", forward |-> 0, backward |-> 0, carried |-> FALSE]

Entry(index) == [offset |-> offset, selected |-> selected, index |-> index]

SetState(st) ==
  /\ offset' = st.offset
  /\ selected' = st.selected

\* self.next()
ListNext ==
  /\ op # "panic"
  /\ SetState(next(Len(items), circular, offset, selected))
  /\ op' = "next"
  /\ entry' = Entry(Unselected)
  /\ UNCHANGED <<items, circular, truncate, max_height, view, trace>>

\* self.previous()
ListPrevious ==
  /\ op # "panic"
  /\ SetState(previous(Len(items), circular, offset, selected))
  /\ op' = "previous"
  /\ entry' = Entry(Unselected)
  /\ UNCHANGED <<items, circular, truncate, max_height, view, trace>>

\* self.state.select(index)
ListSelect ==
  /\ op # "panic"
  /\ \E index \in Selections :
       /\ SetState(select(offset, index))
       /\ entry' = Entry(index)
  /\ op' = "select"
  /\ UNCHANGED <<items, circular, truncate, max_height, view, trace>>

\* Widget::render for &mut SelectableWidgetList, that is WidgetList::render
\* with the list's state: nothing is computed for an empty list.
Render ==
  /\ op # "panic"
  /\ IF items = <<>>
     THEN /\ op' = "render"
          /\ view' = <<>>
          /\ trace' = NoTrace
          /\ offset' = offset
     ELSE \E r \in update_view_port(items, max_height, truncate, offset, selected) :
          /\ op' = IF r.panic THEN "panic" ELSE "render"
          /\ view' = r.view
          /\ trace' = r.trace
          /\ offset' = r.offset
  /\ entry' = Entry(Unselected)
  /\ UNCHANGED <<items, circular, truncate, max_height, selected>>

(* ------------------------ components/github_prs ----------------------- *)

\* A guard that every task obtains at once.
LockAlwaysFree(owner) == TRUE

\* `prs_stream.lock().await` returns when no task holds the guard.
LockFree(owner) == owner = 0

\* A receive loop that breaks one item later.
BatchFullLate(res) == Len(res) > BatchLimit + 1

\* `if prs_res.len() > 3 { break; }`
BatchFull(res) == Len(res) > BatchLimit

\* An AddReviews handler that puts the new items before the old ones.
ExtendPrsFront(old, new) == new \o old

\* `prs.extend(items)`, or `self.prs = Some(items)` when prs is None.
ExtendPrs(old, new) == old \o new

\* GithubPrs::draw: `if let Some(prs) = self.prs.as_ref() { table } else
\* { Paragraph::new("processing") }`; the state field is not read.
Drawn(shown) == IF shown = <<>> THEN "processing" ELSE "table"

\* An AddReviews handler that never schedules a fetch.
WantsMoreNever(shown) == FALSE

\* `if prs.len() < 30`
WantsMore(shown) == Len(shown) < DisplayTarget

\* tokio::spawn(async move { ... }) in schedule_fetch: the task waits for the lock.
Spawned(fs) == Append(fs, [pc |-> "lock", res |-> <<>>])

At_(i, p) == fetchers' = [fetchers EXCEPT ![i].pc = p]

\* An action is sent by the terminal or by another component.
Navigate ==
  /\ gotos < MaxGotos
  /\ gotos' = gotos + 1
  /\ actions' = Append(actions, [type |-> "GotoPage", items |-> <<>>])
  /\ UNCHANGED <<fetchers, lock, stream, started, state, prs>>
  /\ UNCHANGED <<pump, pipe, hist>>

\* GithubPrs::update on the next action of the queue.
Update ==
  /\ actions # <<>>
  /\ actions' = Tail(actions)
  /\ LET action == Head(actions) IN
     IF action.type = "GotoPage"
     THEN /\ fetchers' = Spawned(fetchers)
          /\ UNCHANGED <<state, prs>>
     ELSE IF action.type = "AddReviews"
     THEN /\ prs' = ExtendPrs(prs, action.items)
          /\ fetchers' = IF WantsMore(prs') THEN Spawned(fetchers) ELSE fetchers
          /\ state' = state
     ELSE /\ state' = action.type
          /\ UNCHANGED <<fetchers, prs>>
  /\ UNCHANGED <<lock, stream, started, gotos>>
  /\ UNCHANGED <<pump, pipe, hist>>

\* `let mut prs_stream = prs_stream.lock().await; tx.send(EnterProcessing)`
FetchLock(i) ==
  /\ fetchers[i].pc = "lock"
  /\ LockFree(lock)
  /\ lock' = i
  /\ actions' = Append(actions, [type |-> "EnterProcessing", items |-> <<>>])
  /\ At_(i, "check")
  /\ UNCHANGED <<stream, started, state, prs, gotos>>
  /\ UNCHANGED <<pump, pipe, hist>>

\* `if prs_stream.is_none()`
FetchCheck(i) ==
  /\ fetchers[i].pc = "check"
  /\ At_(i, IF stream = "none" THEN "run" ELSE "recv")
  /\ UNCHANGED <<lock, stream, started, actions, state, prs, gotos>>
  /\ UNCHANGED <<pump, pipe, hist>>

\* `*prs_stream = prs.run("kjuulh", None).await.ok()`: run creates the channel,
\* spawns run_inner and returns Ok(rx).
FetchRun(i) ==
  /\ fetchers[i].pc = "run"
  /\ stream' = "some"
  /\ started' = started + 1
  /\ At_(i, "recv")
  /\ UNCHANGED <<lock, actions, state, prs, gotos>>
  /\ UNCHANGED <<pump, pipe, hist>>

\* `pr_stream.recv().await` returns Some(pr): `prs_res.push(pr)` and the test
\* of the break.
FetchRecv(i) ==
  /\ fetchers[i].pc = "recv"
  /\ rx = "open"
  /\ chan # <<>>
  /\ received' = Append(received, Head(chan))
  /\ chan' = Tail(chan)
  /\ LET res == Append(fetchers[i].res, Head(chan)) IN
     fetchers' = [fetchers EXCEPT ![i] = [pc |-> IF BatchFull(res) THEN "add" ELSE "recv",
                                          res |-> res]]
  /\ UNCHANGED <<lock, stream, started, actions, state, prs, gotos>>
  /\ UNCHANGED <<pump, rx, eos, hist>>

\* `pr_stream.recv().await` returns None: the channel is empty and run_inner
\* has dropped the sender.
FetchRecvNone(i) ==
  /\ fetchers[i].pc = "recv"
  /\ rx = "open"
  /\ chan = <<>>
  /\ pc = "done"
  /\ eos' = TRUE
  /\ At_(i, "add")
  /\ UNCHANGED <<lock, stream, started, actions, state, prs, gotos>>
  /\ UNCHANGED <<pump, chan, rx, received, hist>>

\* `if !prs_res.is_empty() { tx.send(AddReviews { items: prs_res }) }`
FetchAdd(i) ==
  /\ fetchers[i].pc = "add"
  /\ actions' = IF fetchers[i].res # <<>>
                THEN Append(actions, [type |-> "AddReviews", items |-> fetchers[i].res])
                ELSE actions
  /\ fetchers' = [fetchers EXCEPT ![i] = [pc |-> "exit", res |-> <<>>]]
  /\ UNCHANGED <<lock, stream, started, state, prs, gotos>>
  /\ UNCHANGED <<pump, pipe, hist>>

\* `tx.send(ExitProcessing)` and the end of the task, which drops the guard.
FetchExit(i) ==
  /\ fetchers[i].pc = "exit"
  /\ actions' = Append(actions, [type |-> "ExitProcessing", items |-> <<>>])
  /\ lock' = 0
  /\ At_(i, "done")
  /\ UNCHANGED <<stream, started, state, prs, gotos>>
  /\ UNCHANGED <<pump, pipe, hist>>

\* A step of one of the spawned tasks.
Fetch ==
  \E i \in DOMAIN fetchers :
    \/ FetchLock(i)
    \/ FetchCheck(i)
    \/ FetchRun(i)
    \/ FetchRecv(i)
    \/ FetchRecvNone(i)
    \/ FetchAdd(i)
    \/ FetchExit(i)

(* ------------------------ components/github_pr ------------------------ *)

\* Arc::default(): a mutex nobody holds around None.
NewArc == [st |-> "none", owner |-> 0, sent |-> 0]

\* The n-th review that the run behind Arc g delivers.
ReviewOf(g, n) == <<g, n>>

NoItem == <<>>

Act(t, item) == [type |-> t, item |-> item]

\* `else { tx.send(DoneReview) }`
OnClosed == <<Act("DoneReview", NoItem)>>

\* `self.prs_stream = Arc::default();`
ResetStream(arc, streams) == [arc |-> Len(streams) + 1, streams |-> Append(streams, NewArc)]

\* tokio::spawn in schedule_fetch with `self.prs_stream.clone()`.
RvSpawned(ts, arc) == Append(ts, [pc |-> "lock", arc |-> arc])

RvAt(i, p) == rvTasks' = [rvTasks EXCEPT ![i].pc = p]

\* The terminal or another component sends GotoPage("github_review") or
\* SkipReview.
RvInput ==
  /\ rvInputs < MaxReviewInputs
  /\ rvInputs' = rvInputs + 1
  /\ \E t \in {"GotoPage", "SkipReview"} : rvActions' = Append(rvActions, Act(t, NoItem))
  /\ UNCHANGED <<rvTasks, rvArc, rvStreams, rvState, rvPr>>

\* GithubPr::update on the next action of the queue; the action it returns
\* is sent on action_tx by the caller.
RvUpdate ==
  /\ rvActions # <<>>
  /\ LET action == Head(rvActions) IN
     IF action.type \in {"GotoPage", "SkipReview"}
     THEN /\ rvTasks' = RvSpawned(rvTasks, rvArc)
          /\ rvActions' = Tail(rvActions)
          /\ UNCHANGED <<rvArc, rvStreams, rvState, rvPr>>
     ELSE IF action.type \in {"EnterProcessing", "ExitProcessing"}
     THEN /\ rvState' = action.type
          /\ rvActions' = Tail(rvActions)
          /\ UNCHANGED <<rvTasks, rvArc, rvStreams, rvPr>>
     ELSE IF action.type = "NextReview"
     THEN /\ rvPr' = action.item
          /\ rvActions' = Tail(rvActions)
          /\ UNCHANGED <<rvTasks, rvArc, rvStreams, rvState>>
     ELSE IF action.type = "DoneReview"
     THEN /\ rvArc' = ResetStream(rvArc, rvStreams).arc
          /\ rvStreams' = ResetStream(rvArc, rvStreams).streams
          /\ rvState' = "Normal"
          /\ rvPr' = NoItem
          /\ rvActions' = Append(Tail(rvActions), Act("GotoPageList", NoItem))
          /\ UNCHANGED rvTasks
     ELSE /\ rvActions' = Tail(rvActions)
          /\ UNCHANGED <<rvTasks, rvArc, rvStreams, rvState, rvPr>>
  /\ UNCHANGED rvInputs

\* `let mut prs_stream = prs_stream.lock().await; tx.send(EnterProcessing)`
RvLock(i) ==
  /\ rvTasks[i].pc = "lock"
  /\ LockFree(rvStreams[rvTasks[i].arc].owner)
  /\ rvStreams' = [rvStreams EXCEPT ![rvTasks[i].arc].owner = i]
  /\ rvActions' = Append(rvActions, Act("EnterProcessing", NoItem))
  /\ RvAt(i, "check")
  /\ UNCHANGED <<rvArc, rvState, rvPr, rvInputs>>

\* `if prs_stream.is_none()`
RvCheck(i) ==
  /\ rvTasks[i].pc = "check"
  /\ RvAt(i, IF rvStreams[rvTasks[i].arc].st = "none" THEN "run" ELSE "recv")
  /\ UNCHANGED <<rvArc, rvStreams, rvActions, rvState, rvPr, rvInputs>>

\* `*prs_stream = prs.run("kjuulh", None).await.ok()`
RvRun(i) ==
  /\ rvTasks[i].pc = "run"
  /\ rvStreams' = [rvStreams EXCEPT ![rvTasks[i].arc].st = "open"]
  /\ RvAt(i, "recv")
  /\ UNCHANGED <<rvArc, rvActions, rvState, rvPr, rvInputs>>

\* `pr_stream.recv().await` returns Some(pr), the next review of the run:
\* `tx.send(NextReview { pr })`.
RvRecv(i) ==
  LET g == rvTasks[i].arc IN
  /\ rvTasks[i].pc = "recv"
  /\ rvStreams[g].st = "open"
  /\ rvStreams[g].sent < MaxReviews
  /\ rvStreams' = [rvStreams EXCEPT ![g].sent = @ + 1]
  /\ rvActions' = Append(rvActions, Act("NextReview", ReviewOf(g, rvStreams[g].sent + 1)))
  /\ RvAt(i, "exit")
  /\ UNCHANGED <<rvArc, rvState, rvPr, rvInputs>>

\* `pr_stream.recv().await` returns None: the run has ended and the channel
\* is drained, now and for every later recv().
RvRecvNone(i) ==
  LET g == rvTasks[i].arc IN
  /\ rvTasks[i].pc = "recv"
  /\ rvStreams[g].st \in {"open", "closed"}
  /\ rvStreams' = [rvStreams EXCEPT ![g].st = "closed"]
  /\ rvActions' = rvActions \o OnClosed
  /\ RvAt(i, "exit")
  /\ UNCHANGED <<rvArc, rvState, rvPr, rvInputs>>

\* `tx.send(ExitProcessing)` and the end of the task, which drops the guard.
RvExit(i) ==
  /\ rvTasks[i].pc = "exit"
  /\ rvStreams' = [rvStreams EXCEPT ![rvTasks[i].arc].owner = 0]
  /\ rvActions' = Append(rvActions, Act("ExitProcessing", NoItem))
  /\ RvAt(i, "done")
  /\ UNCHANGED <<rvArc, rvState, rvPr, rvInputs>>

\* A step of one of the tasks GithubPr has spawned.
RvFetch ==
  \E i \in DOMAIN rvTasks :
    \/ RvLock(i)
    \/ RvCheck(i)
    \/ RvRun(i)
    \/ RvRecv(i)
    \/ RvRecvNone(i)
    \/ RvExit(i)

\* GithubPr::new
RvNew ==
  /\ rvTasks = <<>>
  /\ rvArc = 1
  /\ rvStreams = <<NewArc>>
  /\ rvActions = <<>>
  /\ rvState = "Normal"
  /\ rvPr = NoItem
  /\ rvInputs = 0

(* --------------------------- specifications --------------------------- *)

\* run_inner before its first step, run() having created the channel.
PumpStart ==
  /\ pc = "loop"
  /\ buffer = <<>>
  /\ cursor = NoCursor
  /\ has_more = TRUE
  /\ seen = 0
  /\ held = <<>>
  /\ tasks = {}
  /\ chan = <<>>
  /\ rx = "open"
  /\ received = <<>>
  /\ eos = FALSE
  /\ fetched = <<>>
  /\ absent = {}
  /\ failed = ""
  /\ passed = NoCursor
  /\ lateCalls = 0
  /\ everEmpty = FALSE
  /\ lastPage = {}
  /\ resolved = {}
  /\ sendErrs = 0
  /\ suspended = FALSE
  /\ outstanding = 0
  /\ completions = <<>>
  /\ answered = NoCursor

\* SelectableWidgetList::new of no items.
ListNew ==
  /\ items = <<>>
  /\ circular = TRUE
  /\ truncate = TRUE
  /\ max_height = 0
  /\ offset = 0
  /\ selected = Unselected
  /\ view = <<>>
  /\ op = "idle"
  /\ entry = [offset |-> 0, selected |-> Unselected, index |-> Unselected]
  /\ trace = NoTrace

\* GithubPrs::new
UiNew ==
  /\ fetchers = <<>>
  /\ lock = 0
  /\ stream = "none"
  /\ started = 0
  /\ actions = <<>>
  /\ state = "Normal"
  /\ prs = <<>>
  /\ gotos = 0

Init ==
  /\ kind \in {"prs", "pr"}
  /\ src \in {"bulk", "small"}
  /\ PumpStart
  /\ ListNew
  /\ UiNew
  /\ RvNew

Producer ==
  /\ LoopTop \/ ListPageOk \/ ListPageErr \/ GetReview \/ FanoutDone \/ Send
  /\ UNCHANGED <<list, ui, rv>>

Consumer ==
  /\ Recv \/ RecvNone \/ DropRx
  /\ UNCHANGED <<list, ui, rv>>

Next == Producer \/ Consumer

Spec == Init /\ [][Next]_vars

\* The producer task is scheduled and every remote call returns; what the
\* source answers and what the consumer does are left open.
LiveSpec == Spec /\ WF_vars(Producer)

\* A list between two calls: the widgets, the settings and the area are any,
\* offset is what an earlier render of some list left and selected what an
\* earlier select left; the list may have changed since.
ListIdle ==
  /\ items \in HeightSeqs
  /\ offset \in 0..MaxLen
  /\ selected \in Selections
  /\ view = <<>>
  /\ op = "idle"
  /\ entry = [offset |-> offset, selected |-> selected, index |-> Unselected]
  /\ trace = NoTrace

\* The list is rendered, frame after frame, into an area of some height.
ViewInit ==
  /\ kind = "prs"
  /\ src = "small"
  /\ PumpStart
  /\ ListIdle
  /\ UiNew
  /\ RvNew
  /\ circular = TRUE
  /\ truncate \in BOOLEAN
  /\ max_height \in (0..MaxViewHeight) \cup {U16Max}

ViewNext == Render /\ UNCHANGED <<pump, pipe, hist, ui, rv>>

ViewSpec == ViewInit /\ [][ViewNext]_vars

\* The list is navigated: next(), previous() and select() in any order.
NavInit ==
  /\ kind = "prs"
  /\ src = "small"
  /\ PumpStart
  /\ ListIdle
  /\ UiNew
  /\ RvNew
  /\ \A i \in DOMAIN items : items[i] = 1
  /\ circular \in BOOLEAN
  /\ truncate = TRUE
  /\ max_height = MaxViewHeight

NavNext ==
  /\ ListNext \/ ListPrevious \/ ListSelect
  /\ UNCHANGED <<pump, pipe, hist, ui, rv>>

NavSpec == NavInit /\ [][NavNext]_vars

\* The review-list screen: the component, the tasks it spawns and the summary
\* pump that the first of them starts.
UiInit ==
  /\ kind = "prs"
  /\ src \in {"bulk", "small"}
  /\ PumpStart
  /\ ListNew
  /\ UiNew
  /\ RvNew

\* run_inner of the pump that run() has spawned.
UiPump ==
  /\ started > 0
  /\ LoopTop \/ ListPageOk \/ ListPageErr \/ Send
  /\ UNCHANGED <<list, ui, rv>>

UiNext ==
  \/ UiPump
  \/ (Navigate \/ Update \/ Fetch) /\ UNCHANGED <<list, rv>>

UiSpec == UiInit /\ [][UiNext]_vars

\* A list as SelectableWidgetList::new leaves it, of any items, walked with
\* next() and previous().
WalkInit ==
  /\ kind = "prs"
  /\ src = "small"
  /\ PumpStart
  /\ UiNew
  /\ RvNew
  /\ items \in HeightSeqs
  /\ circular \in BOOLEAN
  /\ truncate = TRUE
  /\ max_height = MaxViewHeight
  /\ offset = 0
  /\ selected = Unselected
  /\ view = <<>>
  /\ op = "idle"
  /\ entry = [offset |-> 0, selected |-> Unselected, index |-> Unselected]
  /\ trace = NoTrace

WalkNext ==
  /\ ListNext \/ ListPrevious
  /\ UNCHANGED <<pump, pipe, hist, ui, rv>>

WalkSpec == WalkInit /\ [][WalkNext]_vars

\* The single-review screen: the component and the tasks it spawns, each
\* pipeline run seen from its receiver.
RvInit ==
  /\ kind = "pr"
  /\ src = "small"
  /\ PumpStart
  /\ ListNew
  /\ UiNew
  /\ RvNew

RvNext ==
  /\ RvInput \/ RvUpdate \/ RvFetch
  /\ UNCHANGED <<pump, pipe, hist, list, ui>>

RvSpec == RvInit /\ [][RvNext]_vars

(* ------------------------------ claims ------------------------------- *)

\* C1: in the summary pump the items the consumer has received so far are
\* always a prefix of the concatenation of the returned pages, in page order:
\* nothing is reordered and nothing is delivered twice.
C1_SummaryFifo == kind = "prs" => IsPrefix(received, fetched)

\* The consumer holds items of two pages, the second fetched while items of
\* the first were still undelivered.
C1_Witness ==
  /\ kind = "prs"
  /\ src = "bulk"
  /\ Len(received) > BulkPage
  /\ Len(fetched) > Len(received)

\* C2: when no remote call failed, the cap was not reached and the consumer
\* received until recv() returned None, it has observed exactly the items the
\* source returned, each once and in order; the backlog left at the end of
\* the loop was sent before the channel closed.
C2_AllDelivered ==
  (kind = "prs" /\ eos /\ failed = "" /\ seen <= HardCap(kind)) => received = fetched

\* Pages [1,2], [3] and the end of the listing, all three items observed.
C2_Witness ==
  /\ kind = "prs"
  /\ src = "small"
  /\ eos
  /\ failed = ""
  /\ ~has_more
  /\ received = <<1, 2, 3>>

\* The largest page the source returns.
MaxPage == IF src = "bulk" THEN BulkPage ELSE SmallPage

\* The source answers a list call with no items and has_more = true.
EmptyPage == ListPageOk /\ seen' = seen /\ has_more'

\* The consumer has not called recv() and holds its end open.
ConsumerIdle == received = <<>> /\ ~eos /\ rx = "open"

\* The producer is suspended in a send, or its run has ended.
Quiet == pc \in {"send", "dsend", "done"}

C3_Bounded ==
  /\ Len(buffer) <= LowWater(kind) + MaxPage
  /\ Len(buffer) + Len(held) + Len(chan) <= LowWater(kind) + MaxPage + ChanCap(kind)

\* C3 as stated: while the consumer never receives, the producer issues only
\* finitely many list calls and then stays suspended in send (a run that has
\* ended counts as quiet); the backlog never holds more than L + P items and
\* the undelivered items never number more than L + P + N.
C3_AsStated == []C3_Bounded /\ (<>(~ConsumerIdle) \/ <>[]Quiet)

\* C3, amended: the same, for a source that answers only finitely often with
\* an empty page and has_more = true.
C3_Backpressure ==
  []C3_Bounded /\ (<>(~ConsumerIdle) \/ []<><<EmptyPage>>_vars \/ <>[]Quiet)

\* The consumer never received, the channel is full and the producer is
\* suspended in send with a backlog above the low-water threshold.
C3_Witness ==
  /\ ConsumerIdle
  /\ pc = "send"
  /\ Len(chan) = ChanCap(kind)
  /\ Len(buffer) > LowWater(kind)

\* C4 as stated: against a source of full pages that always reports
\* has_more = true, a consumer that drains the stream gets at least C and
\* strictly fewer than C + P items before the stream closes.
C4_Pre ==
  /\ kind = "prs"
  /\ src = "bulk"
  /\ ~everEmpty
  /\ has_more
  /\ failed = ""
  /\ eos

C4_AsStated ==
  C4_Pre => Len(received) >= HardCap(kind) /\ Len(received) < HardCap(kind) + BulkPage

\* C4, amended: the stream yields every item through the page that takes the
\* running total above the cap: more than C and at most C + P items.
C4_HardCap ==
  C4_Pre => /\ received = fetched
            /\ Len(received) > HardCap(kind)
            /\ Len(received) <= HardCap(kind) + BulkPage

\* The stream closed after the cap was exceeded by the page fetched at
\* a running total of exactly C.
C4_Witness == C4_Pre /\ Len(received) = HardCap(kind) + MaxPage

\* C5: in both pumps the running total never exceeds the cap by more than one
\* page, and no list call is outstanding once the total has exceeded the cap.
C5_FetchBound ==
  /\ seen <= HardCap(kind) + MaxPage
  /\ pc \in {"loop", "list"} => seen <= HardCap(kind)

\* The enrichment pump has fetched the page that crosses the cap.
C5_Witness == kind = "pr" /\ seen = HardCap(kind) + MaxPage /\ pc = "dsend"

\* The summary pump runs against a source whose pages are never empty and
\* the consumer has dropped its receiver.
C6_Pre == kind = "prs" /\ rx = "dropped" /\ ~everEmpty

\* C6: once the consumer has dropped its receiver, a summary pump whose source
\* returns non-empty pages issues at most one more list call, does not come
\* back to the top of the loop after it, and terminates.
C6_Cancellation ==
  /\ [](C6_Pre => lateCalls <= 1 /\ (lateCalls = 1 => pc # "loop"))
  /\ (C6_Pre ~> (pc = "done" \/ everEmpty))

\* The receiver was dropped after two items of a ten-item page, the producer
\* made one more list call and ended.
C6_Witness ==
  /\ C6_Pre
  /\ src = "bulk"
  /\ Len(received) = 2
  /\ lateCalls = 1
  /\ pc = "done"

\* C7: a failed list call ends the run: the sender is dropped, nothing of the
\* producer changes afterwards (no further list or detail call), and a
\* consumer that reads on gets the items sent before, then None.
C7_ListFailure ==
  /\ [](failed = "list" => pc = "done" /\ tasks = {} /\ held = <<>>)
  /\ [](failed = "list" /\ eos => chan = <<>> /\ Range(received) \subseteq Range(fetched))
  /\ [][failed = "list" => UNCHANGED <<pump, hist>>]_vars

\* A list call failed after items had been sent; the consumer got them and
\* then the end of the stream.
C7_Witness == failed = "list" /\ eos /\ received # <<>> /\ Len(fetched) > Len(received)

\* The run has ended and the consumer has seen the end of the stream, or had
\* dropped its receiver.
Terminated == pc = "done" /\ (eos \/ rx = "dropped")

\* The hypothesis of a consumer that keeps receiving until closure or closes
\* its end: it does not leave recv() uncalled for ever while its end is open
\* and recv() would return.
KeepsReceiving == WF_vars((Recv \/ RecvNone) /\ UNCHANGED <<list, ui, rv>>)

\* C8 as stated: for every source behaviour, with a consumer that keeps
\* receiving or closes its end, the producer eventually terminates and the
\* consumer eventually observes the closure.
C8_AsStated == KeepsReceiving => <>Terminated

\* C8, amended: the same, for a source that answers only finitely often with
\* an empty page and has_more = true.
C8_Termination == KeepsReceiving => ([]<><<EmptyPage>>_vars \/ <>Terminated)

\* A run that stopped at the hard cap, drained, and whose closure was seen.
C8_Witness == Terminated /\ eos /\ seen > HardCap(kind) /\ failed = ""

\* C9: in the enrichment pump, when no call failed, the cap was not reached
\* and the consumer drained the stream, the details delivered are the
\* summaries listed minus those whose get_review resolved to None, each once,
\* whatever the completion order.
C9_Enrichment ==
  (kind = "pr" /\ eos /\ failed = "" /\ seen <= HardCap(kind)) =>
    /\ Range(received) = Range(fetched) \ absent
    /\ Cardinality(Range(received)) = Len(received)

\* A drained run with an absent detail and two details delivered against the
\* request order.
C9_Witness ==
  /\ kind = "pr"
  /\ eos
  /\ failed = ""
  /\ absent # {}
  /\ Len(received) >= 2
  /\ received[1] > received[2]

\* C10: a failed get_review ends the run: nothing of its page reaches the
\* consumer, the sender is dropped, and nothing of the producer changes
\* afterwards (no further remote call).
C10_DetailFailure ==
  /\ [](failed = "detail" =>
          /\ pc = "done" /\ tasks = {} /\ held = <<>>
          /\ lastPage \cap (Range(received) \cup Range(chan)) = {})
  /\ [][failed = "detail" => UNCHANGED <<pump, hist>>]_vars

\* A get_review failed after a sibling of its page had resolved to Some; the
\* consumer read the items of earlier pages and then the end of the stream.
C10_Witness ==
  /\ failed = "detail"
  /\ eos
  /\ received # <<>>
  /\ resolved \cap lastPage # {}

\* C11: the channel never buffers more items than its capacity; once the
\* receiver is dropped nothing is buffered any more, a pending send is enabled
\* (it is not left suspended), and the step it takes returns Err: nothing is
\* appended to the channel and the producer breaks out of the loop it is in.
C11_ChannelBound ==
  /\ [](/\ Len(chan) <= ChanCap(kind)
        /\ rx = "dropped" => chan = <<>>
        /\ (rx = "dropped" /\ pc \in {"send", "dsend"}) => ENABLED Send)
  /\ [][(rx = "dropped" /\ pc \in {"send", "dsend"} /\ pc' # pc)
          => /\ chan' = chan
             /\ sendErrs' > sendErrs
             /\ pc' \in {"dsend", "done"}]_vars

\* A send was pending on a full channel when the receiver was dropped, and
\* it has returned Err since.
C11_Witness == suspended /\ rx = "dropped" /\ sendErrs >= 1 /\ pc \in {"dsend", "done"}

\* C20: once a send has returned Err the producer issues no list call and no
\* get_review, no send succeeds, it is in the drain loop or past it, a send
\* that fails in the drain loop ends the run, and the run does end.
C20_AfterFailedSend ==
  /\ [](sendErrs > 0 => pc \in {"dsend", "done"})
  /\ [][sendErrs > 0 => /\ pc' \notin {"list", "fanout"}
                        /\ chan' = chan
                        /\ passed' = passed
                        /\ tasks' = tasks]_vars
  /\ [][(pc = "dsend" /\ sendErrs' # sendErrs) => pc' = "done"]_vars
  /\ (sendErrs > 0) ~> (pc = "done")

\* A send failed in the main loop with a backlog left, the first send of the
\* drain loop failed too, and the run has ended.
C20_Witness == sendErrs = 2 /\ pc = "done" /\ rx = "dropped"

\* update_view_port has run in the latest render and has returned.
Computed == op = "render" /\ trace.scan # "none"

\* C12: after a viewport computation on a non-empty list with a selection
\* smaller than the number of items and max_height >= 1, the selected item is
\* inside the returned window: offset <= selected < offset + Len(view).
C12_SelectedVisible ==
  (Computed /\ selected # Unselected /\ selected < Len(items) /\ max_height >= 1)
    => (offset <= selected /\ selected < offset + Len(view))

\* C13: when the forward scan from the current offset does not reach the
\* selected item (offset <= selected < number of items on entry), the
\* computation advances offset so that the returned window ends at the
\* selected item, includes it and sums to at most max_height; for heights
\* 3,3,3,3,3, max_height 7, no truncation, selected 4 and offset 0 the offset
\* returned is 3 or later.
C13_ScrollsToSelected ==
  (/\ Computed
   /\ trace.scan # "forward"
   /\ selected # Unselected
   /\ selected < Len(items)
   /\ entry.offset <= selected)
    => /\ offset >= entry.offset
       /\ offset + Len(view) = selected + 1
       /\ offset <= selected
       /\ Sum(view) <= max_height
       /\ (/\ items = <<3, 3, 3, 3, 3>>
           /\ max_height = 7
           /\ ~truncate
           /\ selected = 4
           /\ entry.offset = 0) => offset >= 3

\* C16: after every viewport computation in which a selection exists,
\* offset <= selected.
C16_OffsetAtMostSelected ==
  (Computed /\ selected # Unselected) => offset <= selected

\* C14 as stated: with truncate=true, whenever the forward or the backward
\* scan stops because a full item would overflow the viewport, the returned
\* heights sum to exactly max_height and their last or their first height is
\* strictly smaller than the full height of the item it stands for.
C14_AsStated ==
  (/\ Computed
   /\ truncate
   /\ \/ trace.forward > 0
      \/ trace.scan = "backward" /\ Sum(Tail(view)) + trace.backward > max_height)
    => /\ Sum(view) = max_height
       /\ view # <<>>
       /\ offset + Len(view) <= Len(items)
       /\ \/ Last(view) < items[offset + Len(view)]
          \/ Head(view) < items[offset + 1]

\* C15: on a list of n >= 1 items next() selects 0 when nothing is selected
\* and i+1 after i < n-1, previous() selects i-1 after i > 0; at the ends
\* next() on n-1 selects 0 and previous() on 0 selects n-1 when circular, and
\* both stay where they are when not.
C15_Navigation ==
  LET n == Len(items)
      i == entry.selected
  IN n >= 1 =>
       /\ op = "next" =>
            /\ i = Unselected => selected = 0
            /\ (i # Unselected /\ i < n - 1) => selected = i + 1
            /\ i = n - 1 => selected = IF circular THEN 0 ELSE n - 1
       /\ op = "previous" =>
            /\ i > 0 => selected = i - 1
            /\ i = 0 => selected = IF circular THEN n - 1 ELSE 0

\* On three items next() was called on the last one and wrapped to the first.
C15_Witness ==
  /\ Len(items) = 3
  /\ circular
  /\ op = "next"
  /\ entry.selected = 2
  /\ selected = 0

\* C17: select(None) clears the selection and sets offset to 0; select(Some(i))
\* sets the selection to i and leaves offset as it was.
C17_Select ==
  op = "select" =>
    /\ selected = entry.index
    /\ entry.index = Unselected => offset = 0
    /\ entry.index # Unselected => offset = entry.offset

\* select(None) was called on a scrolled list with a selection.
C17_Witness ==
  /\ op = "select"
  /\ entry.index = Unselected
  /\ entry.selected # Unselected
  /\ entry.offset > 0
  /\ offset = 0

\* C18: on an empty list next() and previous() return without changing
\* selected or offset, whatever these were.
C18_EmptyNoOp ==
  (items = <<>> /\ op \in {"next", "previous"}) =>
    /\ selected = entry.selected
    /\ offset = entry.offset

\* previous() was called on an empty list whose state held a selection and a
\* scroll offset.
C18_Witness ==
  /\ items = <<>>
  /\ op = "previous"
  /\ entry.selected = 0
  /\ entry.offset > 0
  /\ selected = 0
  /\ offset = entry.offset

\* C19: whatever the heights, the starting offset, the selection, max_height
\* and truncate, the heights a viewport computation returns sum to at most
\* max_height and stand for items that exist: offset + Len(view) <= Len(items).
C19_WindowWithinList ==
  Computed => /\ Sum(view) <= max_height
              /\ offset + Len(view) <= Len(items)

\* C21: once a list call has answered has_more = false the producer is past
\* the main loop (finishing the fan-out of that page, in the drain loop, or
\* done), it issues no further list call and gets no further page, what it
\* puts on the channel comes from the backlog in order, and when no send stays
\* pending for ever (the consumer keeps receiving or drops its end) the run
\* ends with the sender dropped.
C21_LastPage ==
  /\ [](~has_more => pc \in {"fanout", "dsend", "done"})
  /\ [][~has_more => (pc' # "list" /\ passed' = passed /\ fetched' = fetched)]_vars
  /\ [][(~has_more /\ pc = "dsend" /\ Len(chan') > Len(chan))
         => (chan' = chan \o held /\ held' \o buffer' = buffer)]_vars
  /\ KeepsReceiving => ((~has_more) ~> (pc = "done"))

\* The last page left a backlog that was drained to the consumer, who saw the
\* channel close.
C21_Witness ==
  /\ kind = "prs"
  /\ ~has_more
  /\ pc = "done"
  /\ eos
  /\ Len(received) >= 2
  /\ received = fetched

\* C22: at most one list call is in flight at any time, and while one is in
\* flight nothing is appended to the channel.
C22_OneListCall ==
  /\ [](outstanding <= 1)
  /\ [][outstanding > 0 => Len(chan') <= Len(chan)]_vars

\* A list call is in flight while items wait in the backlog and in the channel.
C22_Witness ==
  /\ outstanding = 1
  /\ pc = "list"
  /\ buffer # <<>>
  /\ chan # <<>>
  /\ rx = "open"

\* The producer issues a list call.
IssuesList == pc = "loop" /\ pc' = "list"

\* A response has arrived in this run.
Answered == fetched # <<>> \/ everEmpty

\* C23 as stated: each list call passes the cursor the latest successful call
\* returned (none on the first call), and no call after the first passes the
\* cursor of the call before it again.
C23_AsStated ==
  [][IssuesList => /\ passed' = answered
                   /\ Answered => passed' # passed]_vars

\* C23: each list call passes the last_cursor of the latest response of the
\* run, whatever it is, and none on the first call; the cursor is replaced by
\* every response and by nothing else.
C23_Cursor ==
  /\ [][IssuesList => passed' = (IF Answered THEN answered ELSE NoCursor)]_vars
  /\ [][answered' = answered => cursor' = cursor]_vars

\* A list call that passes no cursor although items have been returned: the
\* source answered with last_cursor = None, and the first call's cursor is
\* passed again.
C23_Witness ==
  /\ pc = "list"
  /\ fetched # <<>>
  /\ passed = NoCursor

\* C24: in the enrichment pump, while a get_review launched for the listed
\* page is pending the producer is in the fan-out: nothing is appended to the
\* channel and no list call is issued until all of them have completed.
C24_Join ==
  /\ []((kind = "pr" /\ tasks # {}) => (pc = "fanout" /\ outstanding = 0 /\ held = <<>>))
  /\ [][(kind = "pr" /\ tasks # {}) => (Len(chan') <= Len(chan) /\ passed' = passed)]_vars

\* One get_review of a page of several has returned, the others are pending,
\* and details of an earlier page wait in the channel.
C24_Witness ==
  /\ kind = "pr"
  /\ pc = "fanout"
  /\ tasks # {}
  /\ lastPage \cap resolved # {}
  /\ chan # <<>>

\* C25: in the enrichment pump the consumer receives the details in the order
\* in which their get_review calls completed, whatever the request order:
\* while nothing failed and the receiver is open, what was received, what the
\* channel and the pending send hold and the backlog are, in this order, the
\* completions; and the completions of the latest page follow all others.
C25_CompletionOrder ==
  kind = "pr" =>
    /\ IsPrefix(received, completions)
    /\ (rx = "open" /\ failed = "" /\ pc # "done")
         => received \o chan \o held \o buffer = completions
    /\ \A i \in 1..(Len(completions) - 1) :
         completions[i] \in lastPage => completions[i + 1] \in lastPage

\* The consumer has received a detail of the first page, then two details of
\* a later page in the reverse of their request order.
C25_Witness ==
  /\ kind = "pr"
  /\ Len(received) = 3
  /\ received[1] \notin lastPage
  /\ received[2] \in lastPage
  /\ received[3] \in lastPage
  /\ received[2] > received[3]

\* The summary pump next to the enrichment pump: the variables of
\* GitPullRequests::run_inner and of its channel that a state of the
\* enrichment pump stands for.  During a fan-out the summary pump is still
\* waiting for the page: the details gathered so far are not in its backlog
\* yet, and cursor, has_more and seen are those of before the call.
AsSummaryPump ==
  LET fan == pc = "fanout"
      got == Cardinality(lastPage \cap resolved)
  IN [pc |-> IF fan THEN "list" ELSE pc,
      buffer |-> IF fan THEN SubSeq(buffer, 1, Len(buffer) - got) ELSE buffer,
      held |-> held,
      cursor |-> IF fan THEN passed ELSE cursor,
      has_more |-> IF fan THEN TRUE ELSE has_more,
      seen |-> IF fan THEN seen - Cardinality(lastPage) ELSE seen,
      chan |-> chan,
      rx |-> rx]

At(a, r) == [a EXCEPT !.pc = r.pc, !.buffer = r.buffer, !.held = r.held]

\* A step of GitPullRequests::run_inner, of the source or of the consumer
\* from a to b, with the threshold, cap and capacity of pump k.
SummaryStep(a, b, k) ==
  \/ /\ a.pc = "loop"
     /\ b = IF NeedsRefill(k, a.buffer, a.has_more)
            THEN At(a, AwaitList(k, a.buffer, a.seen))
            ELSE At(a, AfterRefill(k, a.buffer, a.seen))
  \/ /\ a.pc = "list"
     /\ b.seen >= a.seen
     /\ b = At([a EXCEPT !.cursor = b.cursor, !.seen = b.seen, !.has_more = b.has_more],
               AfterPage(k, Extend(a.buffer, Page(a.seen, b.seen - a.seen)),
                         b.seen, b.has_more))
  \/ /\ a.pc = "list"
     /\ b = [a EXCEPT !.pc = "done", !.buffer = <<>>]
  \/ /\ a.pc \in {"send", "dsend"}
     /\ a.rx = "dropped"
     /\ b = At(a, OnSendErr(a.pc, a.buffer))
  \/ /\ a.pc \in {"send", "dsend"}
     /\ a.rx = "open"
     /\ Len(a.chan) < ChanCap(k)
     /\ b = At([a EXCEPT !.chan = Append(a.chan, a.held[1])],
               IF a.pc = "send"
               THEN [pc |-> "loop", buffer |-> a.buffer, held |-> <<>>]
               ELSE Drain(a.buffer))
  \/ /\ a.rx = "open"
     /\ a.chan # <<>>
     /\ b = [a EXCEPT !.chan = Tail(a.chan)]
  \/ /\ a.rx = "open"
     /\ b = [a EXCEPT !.rx = "dropped", !.chan = <<>>]

\* Every get_review so far has returned a record, in request order.
InRequestOrder ==
  /\ absent = {}
  /\ failed # "detail"
  /\ \A i \in 1..(Len(completions) - 1) : completions[i] < completions[i + 1]

\* C26: as long as every get_review returns a record and the calls complete
\* in request order, every step of the enrichment pump is a step of the
\* summary pump run with the same threshold, cap and capacity, or leaves the
\* summary pump where it is: the list calls, their cursors, the items put on
\* the channel, their order and the point where the run ends are the same.
C26_SameAsSummaryPump ==
  [][(kind = "pr" /\ InRequestOrder')
       => \/ AsSummaryPump' = AsSummaryPump
          \/ SummaryStep(AsSummaryPump, AsSummaryPump', kind)]_vars

\* An enrichment run over several pages, each fan-out completing in request
\* order, whose details were all delivered before the channel closed.
C26_Witness ==
  /\ kind = "pr"
  /\ InRequestOrder
  /\ eos
  /\ Len(received) >= 3
  /\ received = fetched
  /\ Cardinality(lastPage) < Len(fetched)

\* C27: when the selection index s (0 when nothing is selected) is smaller
\* than offset on entry to a viewport computation, offset equals s on return.
C27_OffsetBecomesSelected ==
  (Computed /\ SelectedOrFirst(entry.selected) < entry.offset)
    => offset = SelectedOrFirst(entry.selected)

\* The number of whole items from item off on that fit in max_height rows.
FitCount(off) ==
  LET fits == {k \in 0..Len(items) :
                 /\ off + k <= Len(items)
                 /\ Sum(SubSeq(items, off + 1, off + k)) <= max_height}
  IN IF fits = {} THEN 0 ELSE CHOOSE k \in fits : \A j \in fits : j <= k

\* The heights of those items, followed with truncate=true by the rows left
\* over when an item remains after them.
FitHeights(off) ==
  LET whole == SubSeq(items, off + 1, off + FitCount(off))
  IN IF truncate /\ off + FitCount(off) < Len(items)
     THEN Append(whole, max_height - Sum(whole))
     ELSE whole

\* C28: when offset <= selected on entry and the selected item is among the
\* whole items that fit from offset on, the viewport computation leaves
\* offset unchanged and returns the heights of the forward scan from offset.
C28_ForwardKeepsOffset ==
  (/\ trace.scan # "none"
   /\ entry.offset <= SelectedOrFirst(entry.selected)
   /\ SelectedOrFirst(entry.selected) < entry.offset + FitCount(entry.offset))
    => /\ op = "render"
       /\ offset = entry.offset
       /\ view = FitHeights(entry.offset)
       /\ trace.scan = "forward"

\* The items of the AddReviews actions of a queue, in the order of the queue.
RECURSIVE Queued(_)
Queued(q) == IF q = <<>> THEN <<>> ELSE Head(q).items \o Queued(Tail(q))

\* The items the task holding the lock has received and not yet emitted.
InHand == IF lock = 0 THEN <<>> ELSE fetchers[lock].res

\* C29: on the review-list screen the display buffer holds the items in the
\* order the producer sent them, whatever the number of fetches scheduled and
\* the interleaving of the spawned tasks: the buffer, the batches still
\* queued and the batch being received make up, in this order, what has been
\* taken from the channel, which with what the channel holds is the sequence
\* the producer sent.
C29_DisplayOrder ==
  /\ IsPrefix(prs, received)
  /\ prs \o Queued(actions) \o InHand = received
  /\ IsPrefix(received \o chan, fetched)

\* Three batches are on display, a fourth is queued, and a task waits for the
\* lock that another task holds.
C29_Witness ==
  /\ Len(prs) >= 3 * (BatchLimit + 1)
  /\ Queued(actions) # <<>>
  /\ lock # 0
  /\ \E i \in DOMAIN fetchers : fetchers[i].pc = "lock"

\* The tasks that hold a receiver: past the lock and not yet ended.
Receiving == {i \in DOMAIN fetchers : fetchers[i].pc \in {"check", "run", "recv", "add", "exit"}}

\* C30: for one review-list component, however often a fetch is scheduled
\* and however the spawned tasks interleave, GitPullRequests::run is called
\* at most once and at most one task at a time is between taking the lock
\* and its end, so that at most one task receives from the channel.
C30_OnePumpOneConsumer ==
  /\ started <= 1
  /\ Cardinality(Receiving) <= 1
  /\ (stream = "some") = (started = 1)

\* The pump runs, a first batch is on display, and one task is in the middle
\* of a batch while another, scheduled meanwhile, waits for the lock.
C30_Witness ==
  /\ started = 1
  /\ prs # <<>>
  /\ Len(fetchers) >= 3
  /\ \E i \in DOMAIN fetchers : fetchers[i].pc = "recv" /\ fetchers[i].res # <<>>
  /\ \E i \in DOMAIN fetchers : fetchers[i].pc = "lock"

\* Every scheduled fetch has ended and every action it sent has been handled.
FetchesOver ==
  /\ fetchers # <<>>
  /\ \A i \in DOMAIN fetchers : fetchers[i].pc = "done"
  /\ actions = <<>>

\* C31: once the stream has closed, the fetches scheduled have ended and
\* their actions are handled, the component state is ExitProcessing and the
\* "processing" placeholder is no longer drawn, also when no item was delivered.
C31_DoneAfterClosure ==
  (eos /\ FetchesOver) => (state = "ExitProcessing" /\ Drawn(prs) # "processing")

\* The items the producer has obtained for its backlog, in the order it
\* obtained them: the summaries listed, or the details resolved.
Obtained == IF kind = "prs" THEN fetched ELSE completions

\* What the producer has sent so far: received or still in the channel.
Sent == received \o chan

\* C33: when a remote call fails while the backlog is non-empty, the run
\* ends and the backlog is dropped; from then on nothing more is sent, so the
\* consumer receives only items sent before the failure, and these are a
\* strict prefix of the items obtained.
C33_BacklogLostOnFailure ==
  /\ [][(failed = "" /\ failed' # "" /\ buffer # <<>>)
         => /\ pc' = "done" /\ buffer' = <<>> /\ held' = <<>>
            /\ Sent' = Sent
            /\ Len(Sent') < Len(Obtained')]_vars
  /\ [](failed # "" => (pc = "done" /\ buffer = <<>> /\ held = <<>>))
  /\ [](rx = "open" => IsPrefix(Sent, Obtained))
  /\ [][failed # "" => (Obtained' = Obtained /\ IsPrefix(received', Sent)
                         /\ Len(Sent') <= Len(Sent))]_vars

\* A run that failed with items in its backlog: the stream has closed on a
\* consumer that holds some of the items obtained, and not all.
C33_Witness ==
  /\ failed # ""
  /\ eos
  /\ rx = "open"
  /\ Len(received) >= 2
  /\ Len(received) < Len(Obtained)

\* C34: in the summary pump, while the producer is running and the receiver
\* is open, every item list_page returned is in exactly one place: backlog,
\* pending send, channel or consumer; `seen` is the sum of their sizes, and
\* in the order of the pages the four make up the items fetched.
C34_Conservation ==
  (kind = "prs" /\ pc # "done" /\ rx = "open")
    => /\ seen = Len(buffer) + Len(held) + Len(chan) + Len(received)
       /\ Len(held) <= 1
       /\ received \o chan \o held \o buffer = fetched

\* The four places are all occupied while the producer waits in a send.
C34_Witness ==
  /\ kind = "prs"
  /\ pc = "send"
  /\ rx = "open"
  /\ Len(held) = 1
  /\ Len(buffer) >= 2
  /\ Len(chan) >= 2
  /\ Len(received) >= 2

\* C35: whatever the heights, max_height and the offset on entry, a viewport
\* computation whose selection index is smaller than the number of items
\* does not underflow: neither the panic of a usize subtraction nor its
\* wrapped outcome occurs, and a backward scan leaves through the overflow
\* branch at some item at or above index 0.
C35_NoUnderflow ==
  (trace.scan # "none" /\ SelectedOrFirst(entry.selected) < Len(items))
    => /\ trace.scan # "wrapped"
       /\ trace.scan = "panic" => trace.carried
       /\ trace.scan = "backward" => trace.backward > 0

\* A viewport computation that follows one that has returned, with the
\* heights, the selection, max_height and truncate unchanged.
Recomputed == Computed /\ op' = "render" /\ trace'.scan # "none"

\* C36: computing the viewport again with unchanged heights, selection,
\* max_height and truncate setting leaves offset unchanged.
C36_OffsetFixpoint == [][Recomputed => offset' = offset]_vars

\* C37: on a fixed list of n >= 1 items that starts without a selection,
\* after every next() or previous(), circular or not, the selection is an
\* index smaller than n and get_selected returns that item.
C37_SelectionInRange ==
  (op \in {"next", "previous"} /\ Len(items) >= 1)
    => /\ selected \in 0..(Len(items) - 1)
       /\ get_selected(Len(items), selected) = selected

\* next() on the last of several items of a list that is not circular has
\* left the selection on the last item.
C37_Witness ==
  /\ op = "next"
  /\ ~circular
  /\ Len(items) >= 3
  /\ entry.selected = Len(items) - 1
  /\ selected = Len(items) - 1
  /\ get_selected(Len(items), selected) = Len(items) - 1

\* The selection after k successive next() calls from selection sel.
RECURSIVE NextTimes(_, _, _)
NextTimes(k, n, sel) ==
  IF k = 0 THEN sel ELSE NextTimes(k - 1, n, next(n, TRUE, 0, sel).selected)

\* C38: on a circular list of n >= 1 items with a selection i < n, previous()
\* after next() and next() after previous() restore i, and n successive
\* next() calls lead back to i.
C38_RoundTrips ==
  /\ [][(/\ circular
          /\ op \in {"next", "previous"}
          /\ op' \in {"next", "previous"}
          /\ op' # op
          /\ entry.selected \in 0..(Len(items) - 1))
         => selected' = entry.selected]_vars
  /\ []((circular /\ selected \in 0..(Len(items) - 1))
          => NextTimes(Len(items), Len(items), selected) = selected)

\* next() has wrapped from the last of several items to the first and
\* previous() has led back to the last.
C38_Witness ==
  /\ circular
  /\ Len(items) >= 3
  /\ op = "previous"
  /\ entry.selected = 0
  /\ selected = Len(items) - 1
  /\ offset = 0

\* A step that sends an action of type t on action_tx.
Emits(t) == Len(actions') = Len(actions) + 1 /\ Last(actions').type = t

\* The tasks that have sent EnterProcessing and not yet ExitProcessing.
Processing == {i \in DOMAIN fetchers : fetchers[i].pc \in {"check", "run", "recv", "add", "exit"}}

\* C39: whatever the interleaving of the fetch tasks of one review-list
\* component, EnterProcessing is only sent while no task is between its
\* EnterProcessing and its ExitProcessing and ExitProcessing only by the one
\* task that is, so the two alternate starting with EnterProcessing; every
\* AddReviews is sent by the task between the two and carries 1 to 4 items.
C39_EnterExitAlternate ==
  /\ [][Emits("EnterProcessing") => (Processing = {} /\ Cardinality(Processing') = 1)]_vars
  /\ [][Emits("ExitProcessing") => (Cardinality(Processing) = 1 /\ Processing' = {})]_vars
  /\ [][Emits("AddReviews")
         => /\ Cardinality(Processing) = 1
            /\ Processing' = Processing
            /\ Len(Last(actions').items) \in 1..(BatchLimit + 1)]_vars
  /\ [][Processing' # Processing
         => (Emits("EnterProcessing") \/ Emits("ExitProcessing"))]_vars

\* The queue holds the EnterProcessing, the AddReviews of a full batch and the
\* ExitProcessing of one task in a row while another task waits for the lock.
C39_Witness ==
  /\ \E k \in 2..(Len(actions) - 1) :
       /\ actions[k - 1].type = "EnterProcessing"
       /\ actions[k].type = "AddReviews"
       /\ Len(actions[k].items) = BatchLimit + 1
       /\ actions[k + 1].type = "ExitProcessing"
  /\ \E i \in DOMAIN fetchers : fetchers[i].pc = "lock"

\* C40: handling AddReviews schedules another fetch exactly when the display
\* buffer then holds fewer than 30 items; after a single navigation the
\* buffer never exceeds 33 items, no fetch is pending or receiving once it
\* holds 30, and the fetching has only ended when it holds 30 or the stream
\* has closed.
C40_FetchUntilTarget ==
  /\ [][(actions # <<>> /\ Head(actions).type = "AddReviews" /\ actions' = Tail(actions))
         => /\ Len(prs') = Len(prs) + Len(Head(actions).items)
            /\ (Len(fetchers') = Len(fetchers) + 1) = (Len(prs') < DisplayTarget)
            /\ Len(fetchers') \in {Len(fetchers), Len(fetchers) + 1}]_vars
  /\ [](gotos <= 1 => Len(prs) <= DisplayTarget + BatchLimit)
  /\ []((gotos <= 1 /\ Len(prs) >= DisplayTarget)
          => /\ \A i \in DOMAIN fetchers : fetchers[i].pc \in {"exit", "done"}
             /\ Queued(actions) = <<>>)
  /\ []((gotos <= 1 /\ FetchesOver) => (Len(prs) >= DisplayTarget \/ eos))

\* After one navigation the fetching has ended on a stream that is still
\* open, with eight full batches on display.
C40_Witness ==
  /\ gotos = 1
  /\ FetchesOver
  /\ ~eos
  /\ Len(prs) = 2 * (BatchLimit + 1) * (BatchLimit + 1)
  /\ Len(prs) >= DisplayTarget

\* A step of GithubPr::update that handles an action of type t.
RvHandles(t) ==
  /\ rvActions # <<>>
  /\ Head(rvActions).type = t
  /\ rvActions' # rvActions
  /\ Len(rvActions') <= Len(rvActions)

\* A step in which a task sends an action of type t.
RvEmits(t) == Len(rvActions') = Len(rvActions) + 1 /\ Last(rvActions').type = t

\* A step in which the recv() of task i returns, with an item or without.
RvReceives(i, n) ==
  /\ rvTasks[i].pc = "recv"
  /\ rvTasks'[i].pc = "exit"
  /\ rvStreams'[rvTasks[i].arc].sent = rvStreams[rvTasks[i].arc].sent + n

\* The parts of C32 that do not depend on which stream DoneReview discards.
RvFetchAndDone ==
  /\ [][\A i \in DOMAIN rvTasks : RvReceives(i, 0) => RvEmits("DoneReview")]_vars
  /\ [][\A i \in DOMAIN rvTasks :
           RvReceives(i, 1)
             => /\ RvEmits("NextReview")
                /\ Last(rvActions').item = <<rvTasks[i].arc, rvStreams'[rvTasks[i].arc].sent>>]_vars
  /\ [][RvHandles("DoneReview")
         => /\ rvPr' = NoItem
            /\ rvState' = "Normal"
            /\ rvArc' # rvArc
            /\ rvStreams'[rvArc'] = [st |-> "none", owner |-> 0, sent |-> 0]
            /\ Last(rvActions').type = "GotoPageList"]_vars
  /\ [][(RvHandles("GotoPage") \/ RvHandles("SkipReview"))
         => /\ Len(rvTasks') = Len(rvTasks) + 1
            /\ Last(rvTasks') = [pc |-> "lock", arc |-> rvArc]]_vars
  /\ [][\A i \in DOMAIN rvTasks :
           (rvTasks[i].pc = "check" /\ rvTasks'[i].pc # "check")
             => rvTasks'[i].pc = (IF rvStreams[rvTasks[i].arc].st = "none" THEN "run" ELSE "recv")]_vars

\* C32 as stated: a fetch that finds the stream closed sends DoneReview, a
\* fetch that receives an item sends NextReview with that item, and handling
\* DoneReview clears the review, sets the state to Normal, sends the
\* navigation to the review list and discards the closed stream, so that
\* the next fetch scheduled starts a new run.
C32_AsStated ==
  /\ RvFetchAndDone
  /\ [][RvHandles("DoneReview") => rvStreams[rvArc].st = "closed"]_vars

====
